---- MODULE Spec2Model ----
(***************************************************************************)
(* runWhile (src/src/effects/RunWhile.ts): the fluent builder that         *)
(* accumulates a RunWhileDefinition, and runInternal, the generator that   *)
(* races the saga against one observeWhile watcher per invariant and calls *)
(* the onViolation callbacks when an invariant key is in the race result.  *)
(*                                                                         *)
(* The JavaScript heap is modelled explicitly: `arrays` are the array      *)
(* objects (by reference), `defs` the RunWhileDefinition objects, `stages` *)
(* the objects returned to the caller (the set of their bound methods;     *)
(* stage i is bound to definition i).  Each generator segment between two  *)
(* yields is one action.                                                   *)
(***************************************************************************)
EXTENDS Integers, Sequences, FiniteSets, TLC

VARIABLES
    arrays,     \* heap of array objects: reference -> sequence
    defs,       \* heap of RunWhileDefinition objects
    stages,     \* the returned monad objects: the method names each one has
    calls,      \* history: the builder call that created each stage
    lastCall,   \* history: the most recent builder call and what it threw
    state,      \* the redux store's current state
    runs        \* the runInternal generators and their races

vars == <<arrays, defs, stages, calls, lastCall, state, runs>>

\* ------------------------------------------------------------------ bounds
MaxObjects == 6     \* objects the fluent API has returned: stages and run effects
MaxStages == 5      \* stages on the heap when the builder is explored alone
MaxFairObjects == 5 \* stages and run effects when the runs are scheduled fairly

\* ------------------------------------------------------------------ inputs
sagaRaceTag == "@@Saga"

\* Own properties every plain object inherits from Object.prototype: the
\* `in` operator of line 167 finds them on the race result as well.
ObjectPrototypeKeys ==
    { "constructor", "toString", "toLocaleString", "valueOf", "hasOwnProperty",
      "isPrototypeOf", "propertyIsEnumerable", "__proto__",
      "__defineGetter__", "__defineSetter__", "__lookupGetter__",
      "__lookupSetter__" }

StateVals == {0 - 1, 0, 1}
Clauses == {"nonNegative", "isZero"}
Sagas == {"T"}

\* Scheduling steps a saga needs to complete: `nothing` (line 78) yields once,
\* the guarded saga T suspends once and completes on its second step.
sagaLength(sg) == IF sg = "nothing" THEN 1 ELSE 2
Callbacks == {"h1", "h2"}

\* Tags offered to the builder alone, and (tag, clause) pairs offered when
\* runs are explored too.
BuilderTags == {"a", "A", "toString", sagaRaceTag}
RunInvariants ==
    { <<"a", "nonNegative">>, <<"1", "isZero">>, <<"toString", "nonNegative">>,
      <<sagaRaceTag, "nonNegative">> }

\* clause(currentState) for the predicates used as invariant clauses
clause(c, s) ==
    CASE c = "nonNegative" -> s >= 0
      [] c = "isZero" -> s = 0

\* ------------------------------------------------------------------ builder
\* runWhile(): a fresh definition with two fresh empty arrays, and {saga}
Init ==
    /\ arrays = << <<>>, <<>> >>
    /\ defs = << [saga |-> "nothing", invariants |-> 1, onViolationCallbacks |-> 2] >>
    /\ stages = << {"saga"} >>
    /\ calls = << [this |-> 0, method |-> "runWhile", arg |-> <<>>] >>
    /\ lastCall = [this |-> 0, method |-> "runWhile", arg |-> <<>>, thrown |-> "none"]
    /\ state = 0
    /\ runs = <<>>

\* saga.bind(definition)(sg), lines 88-98: {...this, saga} copies the two array
\* references, so the new definition shares both arrays with the receiver.
sagaDefinition(this, sg) == [defs[this] EXCEPT !.saga = sg]

\* lines 94-97: the object returned by saga
sagaMonad == {"run", "invariant"}

saga(this, sg) ==
    /\ "saga" \in stages[this]
    /\ Len(defs) + Len(runs) < MaxObjects
    /\ defs' = Append(defs, sagaDefinition(this, sg))
    /\ stages' = Append(stages, sagaMonad)
    /\ calls' = Append(calls, [this |-> this, method |-> "saga", arg |-> <<sg>>])
    /\ lastCall' = [this |-> this, method |-> "saga", arg |-> <<sg>>, thrown |-> "none"]
    /\ UNCHANGED <<arrays, state, runs>>

\* The duplicate check alone, without the reserved-tag check.
invariantThrowsNoReservedCheck(this, tag) ==
    IF \E i \in 1..Len(arrays[defs[this].invariants]) :
            arrays[defs[this].invariants][i].tag = tag
    THEN "duplicate"
    ELSE "none"

\* The reserved-tag check alone, without the duplicate check.
invariantThrowsNoDuplicateCheck(this, tag) ==
    IF tag = sagaRaceTag THEN "reserved" ELSE "none"

\* lines 104-112: what invariant(tag, ...) throws on this receiver
invariantThrows(this, tag) ==
    IF tag = sagaRaceTag THEN "reserved"
    ELSE IF \E i \in 1..Len(arrays[defs[this].invariants]) :
                arrays[defs[this].invariants][i].tag = tag
         THEN "duplicate"
         ELSE "none"

\* A push on the receiver's own array before the copy is taken.
invariantArraysPush(this, tag, cl) ==
    Append([arrays EXCEPT ![defs[this].invariants] =
                Append(@, [tag |-> tag, clause |-> cl])],
           Append(arrays[defs[this].invariants], [tag |-> tag, clause |-> cl]))

\* lines 116-122: [...this.invariants, {tag, clause}] is a new array object
invariantArrays(this, tag, cl) ==
    Append(arrays, Append(arrays[defs[this].invariants], [tag |-> tag, clause |-> cl]))

\* lines 114-123: {...this, invariants: <the new array>}
invariantDefinition(this) == [defs[this] EXCEPT !.invariants = Len(arrays) + 1]

\* An invariant stage that offered run as well.
invariantMonadWithRun == {"invariant", "onViolation", "run"}

\* lines 125-128: the object returned by invariant
invariantMonad == {"invariant", "onViolation"}

\* An invariant call that pushes the pair on the receiver's array before it
\* checks the tag.
invariantRecordsBeforeThrow(this, tag, cl) ==
    /\ "invariant" \in stages[this]
    /\ lastCall' = [this |-> this, method |-> "invariant", arg |-> <<tag, cl>>,
                    thrown |-> invariantThrows(this, tag)]
    /\ IF invariantThrows(this, tag) # "none"
       THEN /\ arrays' = [arrays EXCEPT ![defs[this].invariants] =
                            Append(@, [tag |-> tag, clause |-> cl])]
            /\ UNCHANGED <<defs, stages, calls>>
       ELSE /\ Len(defs) + Len(runs) < MaxObjects
            /\ arrays' = invariantArrays(this, tag, cl)
            /\ defs' = Append(defs, invariantDefinition(this))
            /\ stages' = Append(stages, invariantMonad)
            /\ calls' = Append(calls, [this |-> this, method |-> "invariant",
                                       arg |-> <<tag, cl>>])
    /\ UNCHANGED <<state, runs>>

invariant(this, tag, cl) ==
    /\ "invariant" \in stages[this]
    /\ lastCall' = [this |-> this, method |-> "invariant", arg |-> <<tag, cl>>,
                    thrown |-> invariantThrows(this, tag)]
    /\ IF invariantThrows(this, tag) # "none"
       THEN UNCHANGED <<arrays, defs, stages, calls>>
       ELSE /\ Len(defs) + Len(runs) < MaxObjects
            /\ arrays' = invariantArrays(this, tag, cl)
            /\ defs' = Append(defs, invariantDefinition(this))
            /\ stages' = Append(stages, invariantMonad)
            /\ calls' = Append(calls, [this |-> this, method |-> "invariant",
                                       arg |-> <<tag, cl>>])
    /\ UNCHANGED <<state, runs>>

\* The new callback put in front of the receiver's callbacks.
onViolationArraysPrepend(this, cb) ==
    Append(arrays, <<cb>> \o arrays[defs[this].onViolationCallbacks])

\* line 137: [...this.onViolationCallbacks, callback] is a new array object
onViolationArrays(this, cb) ==
    Append(arrays, Append(arrays[defs[this].onViolationCallbacks], cb))

\* lines 135-138
onViolationDefinition(this) ==
    [defs[this] EXCEPT !.onViolationCallbacks = Len(arrays) + 1]

\* An onViolation stage that offered invariant as well.
onViolationMonadWithInvariant == {"invariant", "onViolation", "run"}

\* lines 140-143: the object returned by onViolation
onViolationMonad == {"onViolation", "run"}

onViolation(this, cb) ==
    /\ "onViolation" \in stages[this]
    /\ Len(defs) + Len(runs) < MaxObjects
    /\ arrays' = onViolationArrays(this, cb)
    /\ defs' = Append(defs, onViolationDefinition(this))
    /\ stages' = Append(stages, onViolationMonad)
    /\ calls' = Append(calls, [this |-> this, method |-> "onViolation", arg |-> <<cb>>])
    /\ lastCall' = [this |-> this, method |-> "onViolation", arg |-> <<cb>>,
                    thrown |-> "none"]
    /\ UNCHANGED <<state, runs>>

\* The builder alone: any stage is the receiver of any call.
NextBuilder ==
    \/ \E this \in 1..Len(defs), sg \in Sagas :
            Len(defs) < MaxStages /\ saga(this, sg)
    \/ \E this \in 1..Len(defs), tag \in BuilderTags, cl \in Clauses :
            /\ Len(defs) < MaxStages \/ invariantThrows(this, tag) # "none"
            /\ invariant(this, tag, cl)
    \/ \E this \in 1..Len(defs), cb \in Callbacks :
            Len(defs) < MaxStages /\ onViolation(this, cb)

SpecBuilder == Init /\ [][NextBuilder]_vars

\* ------------------------------------------------------------------ run
\* run.bind(definition)(), lines 146-148: only creates call(runInternal.bind(this));
\* the generator starts when the middleware executes the effect.
newRun(this) ==
    [ def |-> this, pc |-> "Idle", race |-> <<>>, taskSteps |-> 0,
      raceResults |-> {}, currentState |-> <<>>, violations |-> <<>>,
      selects |-> 0, callbacks |-> 0, k |-> 0, handlers |-> <<>>, error |-> "" ]

run(this) ==
    /\ "run" \in stages[this]
    /\ Len(defs) + Len(runs) < MaxObjects
    /\ runs' = Append(runs, newRun(this))
    /\ UNCHANGED <<arrays, defs, stages, calls, lastCall, state>>

\* The order of an object's own keys (what race iterates over): the keys that
\* are array indices ("0", "1", "10", ... up to 2^32 - 2, written without
\* leading zeros) come first, in ascending numeric order, then every other
\* string key in insertion order.
Digits == <<"0", "1", "2", "3", "4", "5", "6", "7", "8", "9">>

digitOf(c) ==
    IF \E d \in 1..Len(Digits) : Digits[d] = c
    THEN (CHOOSE d \in 1..Len(Digits) : Digits[d] = c) - 1
    ELSE 0 - 1

keyDigits(key) == [i \in 1..Len(key) |-> digitOf(SubSeq(key, i, i))]

\* a before b, for two digit sequences of the same length
lessDigits(a, b) ==
    \E i \in 1..Len(a) : a[i] < b[i] /\ \A j \in 1..(i - 1) : a[j] = b[j]

MaxArrayIndexDigits == <<4, 2, 9, 4, 9, 6, 7, 2, 9, 4>>

isArrayIndex(key) ==
    LET d == keyDigits(key)
    IN  /\ Len(d) >= 1
        /\ \A i \in 1..Len(d) : d[i] >= 0
        /\ d[1] = 0 => Len(d) = 1
        /\ \/ Len(d) < Len(MaxArrayIndexDigits)
           \/ Len(d) = Len(MaxArrayIndexDigits) /\ ~lessDigits(MaxArrayIndexDigits, d)

indexLess(k1, k2) ==
    \/ Len(k1) < Len(k2)
    \/ Len(k1) = Len(k2) /\ lessDigits(keyDigits(k1), keyDigits(k2))

\* {...raceDefinition, [key]: effect}: an existing key keeps its position and
\* takes the new value; a new array-index key goes after the smaller index
\* keys and before everything else; any other new key is added last.
objectPut(obj, entry) ==
    IF \E i \in 1..Len(obj) : obj[i].key = entry.key
    THEN [i \in 1..Len(obj) |-> IF obj[i].key = entry.key THEN entry ELSE obj[i]]
    ELSE IF isArrayIndex(entry.key)
         THEN LET n == Cardinality({i \in 1..Len(obj) :
                            /\ isArrayIndex(obj[i].key)
                            /\ indexLess(obj[i].key, entry.key)})
              IN  SubSeq(obj, 1, n) \o <<entry>> \o SubSeq(obj, n + 1, Len(obj))
         ELSE Append(obj, entry)

\* lines 153-162: the race's branches, keyed by '@@Saga' and by each tag
RECURSIVE raceDefinitionFrom(_, _, _)
raceDefinitionFrom(obj, invs, i) ==
    IF i > Len(invs) THEN obj
    ELSE raceDefinitionFrom(
            objectPut(obj, [key |-> invs[i].tag, fn |-> "observeWhile",
                            arg |-> invs[i].clause, status |-> "running"]),
            invs, i + 1)

raceDefinition(this) ==
    raceDefinitionFrom(
        << [key |-> sagaRaceTag, fn |-> "saga", arg |-> defs[this].saga,
            status |-> "running"] >>,
        arrays[defs[this].invariants], 1)

\* line 164, yield race(raceDefinition): every branch is started
runInternal(r) ==
    /\ runs[r].pc = "Idle"
    /\ runs' = [runs EXCEPT ![r] =
                  [@ EXCEPT !.pc = "Racing", !.race = raceDefinition(runs[r].def)]]
    /\ UNCHANGED <<arrays, defs, stages, calls, lastCall, state>>

\* A race that lets the losing branches run on.
raceWinnerNoCancel(rc, i) ==
    [j \in 1..Len(rc) |-> IF j = i THEN [rc[j] EXCEPT !.status = "completed"] ELSE rc[j]]

\* line 164, the race effect: the first branch to complete wins and every
\* other branch is cancelled
raceWinner(rc, i) ==
    [j \in 1..Len(rc) |->
        IF j = i THEN [rc[j] EXCEPT !.status = "completed"]
        ELSE IF rc[j].status = "running" THEN [rc[j] EXCEPT !.status = "cancelled"]
        ELSE rc[j]]

\* line 167, `tag in raceResults`: own keys and inherited ones
In(key, ownKeys) == key \in ownKeys \/ key \in ObjectPrototypeKeys

\* A test for any completed key at all.
someInvariantInAnyKey(invs, ownKeys) == ownKeys # {}

\* line 167: this.invariants.some(invariant => invariant.tag in raceResults)
someInvariantIn(invs, ownKeys) ==
    \E i \in 1..Len(invs) : In(invs[i].tag, ownKeys)

\* lines 164-168: the race result {[key]: res} is delivered and the generator
\* runs on to `yield select` or to its end
afterRace(rn, i) ==
    [rn EXCEPT !.race = raceWinner(@, i),
               !.raceResults = {rn.race[i].key},
               !.pc = IF someInvariantIn(arrays[defs[rn.def].invariants],
                                         {rn.race[i].key})
                      THEN "Select" ELSE "Completed"]

\* call(this.saga): one scheduling step of the guarded saga; its last step
\* completes it and wins the race.
sagaStep(r) ==
    /\ runs[r].pc = "Racing"
    /\ \E i \in 1..Len(runs[r].race) :
          /\ runs[r].race[i].fn = "saga"
          /\ runs[r].race[i].status = "running"
          /\ runs' = [runs EXCEPT ![r] =
                IF @.taskSteps + 1 < sagaLength(@.race[i].arg)
                THEN [@ EXCEPT !.taskSteps = @ + 1]
                ELSE afterRace([@ EXCEPT !.taskSteps = @ + 1], i)]
    /\ UNCHANGED <<arrays, defs, stages, calls, lastCall, state>>

\* call(observeWhile, clause): suspended until it observes the clause false on
\* the store's state, then it completes and wins the race.
observeWhile(r, i) ==
    /\ runs[r].pc = "Racing"
    /\ i \in 1..Len(runs[r].race)
    /\ runs[r].race[i].fn = "observeWhile"
    /\ runs[r].race[i].status = "running"
    /\ ~clause(runs[r].race[i].arg, state)
    /\ runs' = [runs EXCEPT ![r] = afterRace(@, i)]
    /\ UNCHANGED <<arrays, defs, stages, calls, lastCall, state>>

\* A branch throws: the race rejects, the other branches are cancelled, and
\* runInternal, which has no try/catch, ends with that error.
raceThrow(rc, i) ==
    [j \in 1..Len(rc) |->
        IF j = i THEN [rc[j] EXCEPT !.status = "failed"]
        ELSE IF rc[j].status = "running" THEN [rc[j] EXCEPT !.status = "cancelled"]
        ELSE rc[j]]

branchThrow(r, i) ==
    /\ runs[r].pc = "Racing"
    /\ i \in 1..Len(runs[r].race)
    /\ runs[r].race[i].status = "running"
    /\ runs' = [runs EXCEPT ![r] =
                  [@ EXCEPT !.race = raceThrow(@, i), !.pc = "Failed",
                            !.error = runs[r].race[i].key]]
    /\ UNCHANGED <<arrays, defs, stages, calls, lastCall, state>>

\* lines 170-172: filter(invariant => !invariant.clause(currentState)).map(tag)
RECURSIVE violationsFrom(_, _, _)
violationsFrom(invs, s, i) ==
    IF i > Len(invs) THEN <<>>
    ELSE (IF clause(invs[i].clause, s) THEN <<>> ELSE <<invs[i].tag>>)
         \o violationsFrom(invs, s, i + 1)

\* The tags in reverse registration order.
violationsReversed(invs, s) ==
    LET v == violationsFrom(invs, s, 1)
    IN  [i \in 1..Len(v) |-> v[Len(v) + 1 - i]]

\* Every tag, whatever its clause says.
violationsUnfiltered(invs, s) == [i \in 1..Len(invs) |-> invs[i].tag]

violations(invs, s) == violationsFrom(invs, s, 1)

\* The arguments re-read from the store at each call.
callbackArgsLive(rn) ==
    [state |-> state,
     violations |-> violations(arrays[defs[rn.def].invariants], state)]

\* line 175: the arguments of call(callback, currentState, violations)
callbackArgs(rn) == [state |-> rn.currentState[1], violations |-> rn.violations]

\* Every remaining callback is started at once.
nextCallbackAll(rn) ==
    IF rn.k < Len(arrays[rn.callbacks])
    THEN [rn EXCEPT !.pc = "Notifying",
            !.handlers = @ \o
               [j \in 1..(Len(arrays[rn.callbacks]) - Len(rn.handlers)) |->
                  [callback |-> arrays[rn.callbacks][Len(rn.handlers) + j],
                   state |-> callbackArgs(rn).state,
                   violations |-> callbackArgs(rn).violations,
                   status |-> "running"]]]
    ELSE [rn EXCEPT !.pc = "Completed"]

\* A loop that does not end after the last callback.
nextCallbackNoEnd(rn) ==
    IF rn.k < Len(arrays[rn.callbacks])
    THEN [rn EXCEPT !.pc = "Notifying",
            !.handlers = Append(@,
                  [callback |-> arrays[rn.callbacks][rn.k + 1],
                   state |-> callbackArgs(rn).state,
                   violations |-> callbackArgs(rn).violations,
                   status |-> "running"])]
    ELSE [rn EXCEPT !.pc = "Notifying"]

\* lines 174-176, one turn of the for-of loop over the callbacks array: the
\* next callback is called, or the loop and the generator end
nextCallback(rn) ==
    IF rn.k < Len(arrays[rn.callbacks])
    THEN [rn EXCEPT !.pc = "Notifying",
            !.handlers = Append(@,
                  [callback |-> arrays[rn.callbacks][rn.k + 1],
                   state |-> callbackArgs(rn).state,
                   violations |-> callbackArgs(rn).violations,
                   status |-> "running"])]
    ELSE [rn EXCEPT !.pc = "Completed"]

\* The snapshot and the violations kept on the definition, so that every run
\* of that definition sees the last ones written.
selectStateShared(r) ==
    /\ runs[r].pc = "Select"
    /\ runs' = [q \in 1..Len(runs) |->
          IF q = r
          THEN nextCallback(
                 [runs[r] EXCEPT !.currentState = <<state>>,
                      !.selects = @ + 1,
                      !.violations =
                          violations(arrays[defs[runs[r].def].invariants], state),
                      !.callbacks = defs[runs[r].def].onViolationCallbacks])
          ELSE IF runs[q].def = runs[r].def /\ runs[q].currentState # <<>>
               THEN [runs[q] EXCEPT !.currentState = <<state>>,
                      !.violations =
                          violations(arrays[defs[runs[r].def].invariants], state)]
               ELSE runs[q]]
    /\ UNCHANGED <<arrays, defs, stages, calls, lastCall, state>>

\* lines 168-175: the select effect delivers the store's state, the violations
\* are computed and the loop over this.onViolationCallbacks begins
selectState(r) ==
    /\ runs[r].pc = "Select"
    /\ runs' = [runs EXCEPT ![r] =
          nextCallback(
            [@ EXCEPT !.currentState = <<state>>,
                      !.selects = @ + 1,
                      !.violations =
                          violations(arrays[defs[runs[r].def].invariants], state),
                      !.callbacks = defs[runs[r].def].onViolationCallbacks])]
    /\ UNCHANGED <<arrays, defs, stages, calls, lastCall, state>>

\* line 175: the called callback returns and the loop goes on
callbackReturn(r) ==
    /\ runs[r].pc = "Notifying"
    /\ runs[r].k < Len(runs[r].handlers)
    /\ runs[r].handlers[runs[r].k + 1].status = "running"
    /\ runs' = [runs EXCEPT ![r] =
          nextCallback([@ EXCEPT !.handlers[runs[r].k + 1].status = "done",
                                 !.k = @ + 1])]
    /\ UNCHANGED <<arrays, defs, stages, calls, lastCall, state>>

\* A loop that catches the callback's error and goes on to the next callback.
callbackThrowCaught(r) ==
    /\ runs[r].pc = "Notifying"
    /\ runs[r].k < Len(runs[r].handlers)
    /\ runs[r].handlers[runs[r].k + 1].status = "running"
    /\ runs' = [runs EXCEPT ![r] =
          nextCallback([@ EXCEPT !.handlers[runs[r].k + 1].status = "failed",
                                 !.k = @ + 1])]
    /\ UNCHANGED <<arrays, defs, stages, calls, lastCall, state>>

\* line 175: the called callback throws; nothing catches it
callbackThrow(r) ==
    /\ runs[r].pc = "Notifying"
    /\ runs[r].k < Len(runs[r].handlers)
    /\ runs[r].handlers[runs[r].k + 1].status = "running"
    /\ runs' = [runs EXCEPT ![r] =
          [@ EXCEPT !.handlers[runs[r].k + 1].status = "failed",
                    !.pc = "Failed",
                    !.error = runs[r].handlers[runs[r].k + 1].callback]]
    /\ UNCHANGED <<arrays, defs, stages, calls, lastCall, state>>

\* The store's state is replaced from outside (a reducer ran).
dispatch(v) ==
    /\ v # state
    /\ state' = v
    /\ UNCHANGED <<arrays, defs, stages, calls, lastCall, runs>>

\* Builder and runs together: the fluent chain extends its newest stage.
Next ==
    \/ \E sg \in Sagas : saga(Len(defs), sg)
    \/ \E inv \in RunInvariants : invariant(Len(defs), inv[1], inv[2])
    \/ \E cb \in Callbacks : onViolation(Len(defs), cb)
    \/ \E this \in 1..Len(defs) : run(this)
    \/ \E r \in 1..Len(runs) : runInternal(r)
    \/ \E r \in 1..Len(runs) : sagaStep(r)
    \/ \E r \in 1..Len(runs) : \E i \in 1..Len(runs[r].race) : observeWhile(r, i)
    \/ \E r \in 1..Len(runs) : \E i \in 1..Len(runs[r].race) : branchThrow(r, i)
    \/ \E r \in 1..Len(runs) : selectState(r)
    \/ \E r \in 1..Len(runs) : callbackReturn(r)
    \/ \E r \in 1..Len(runs) : callbackThrow(r)
    \/ \E v \in StateVals : dispatch(v)

Spec == Init /\ [][Next]_vars

\* The runs under fair scheduling, with fewer objects: the middleware executes
\* every call effect it was given, every started saga is resumed until it ends,
\* a select effect is answered at once, and every called callback ends.
NextFair ==
    \/ \E sg \in Sagas :
            Len(defs) + Len(runs) < MaxFairObjects /\ saga(Len(defs), sg)
    \/ \E inv \in RunInvariants :
            /\ Len(defs) + Len(runs) < MaxFairObjects
                  \/ invariantThrows(Len(defs), inv[1]) # "none"
            /\ invariant(Len(defs), inv[1], inv[2])
    \/ \E cb \in Callbacks :
            Len(defs) + Len(runs) < MaxFairObjects /\ onViolation(Len(defs), cb)
    \/ \E this \in 1..Len(defs) :
            Len(defs) + Len(runs) < MaxFairObjects /\ run(this)
    \/ \E r \in 1..Len(runs) : runInternal(r)
    \/ \E r \in 1..Len(runs) : sagaStep(r)
    \/ \E r \in 1..Len(runs) : \E i \in 1..Len(runs[r].race) : observeWhile(r, i)
    \/ \E r \in 1..Len(runs) : \E i \in 1..Len(runs[r].race) : branchThrow(r, i)
    \/ \E r \in 1..Len(runs) : selectState(r)
    \/ \E r \in 1..Len(runs) : callbackReturn(r)
    \/ \E r \in 1..Len(runs) : callbackThrow(r)
    \/ \E v \in StateVals : dispatch(v)

Fairness ==
    \A r \in 1..MaxFairObjects :
        /\ WF_vars(r \in 1..Len(runs) /\ runInternal(r))
        /\ WF_vars(r \in 1..Len(runs) /\ sagaStep(r))
        /\ WF_vars(r \in 1..Len(runs) /\ selectState(r))
        /\ WF_vars(r \in 1..Len(runs) /\ (callbackReturn(r) \/ callbackThrow(r)))

SpecFair == Init /\ [][NextFair]_vars /\ Fairness

\* ------------------------------------------------------------------ what was registered
\* The (tag, clause) pairs, the callbacks and the saga registered on the chain
\* of calls that produced stage s, read from the call history and not from the
\* heap.
RECURSIVE chainInvariants(_)
chainInvariants(s) ==
    IF s = 0 THEN <<>>
    ELSE IF calls[s].method = "invariant"
         THEN Append(chainInvariants(calls[s].this), calls[s].arg)
         ELSE chainInvariants(calls[s].this)

RECURSIVE chainCallbacks(_)
chainCallbacks(s) ==
    IF s = 0 THEN <<>>
    ELSE IF calls[s].method = "onViolation"
         THEN Append(chainCallbacks(calls[s].this), calls[s].arg[1])
         ELSE chainCallbacks(calls[s].this)

RECURSIVE chainSaga(_)
chainSaga(s) ==
    IF s = 0 THEN "nothing"
    ELSE IF calls[s].method = "saga" THEN calls[s].arg[1]
         ELSE chainSaga(calls[s].this)

chainTags(s) == {chainInvariants(s)[i][1] : i \in 1..Len(chainInvariants(s))}

\* The registered tags whose clause is false on snapshot s, in registration order
falseTags(pairs, s) ==
    LET false == SelectSeq(pairs, LAMBDA pr : ~clause(pr[2], s))
    IN  [i \in 1..Len(false) |-> false[i][1]]

Runs == 1..Len(runs)
Branches(r) == 1..Len(runs[r].race)
taskWon(r) ==
    \E i \in Branches(r) :
        runs[r].race[i].fn = "saga" /\ runs[r].race[i].status = "completed"
watcherWon(r) ==
    \E i \in Branches(r) :
        runs[r].race[i].fn = "observeWhile" /\ runs[r].race[i].status = "completed"
sagaBranch(r) == CHOOSE i \in Branches(r) : runs[r].race[i].key = sagaRaceTag
winnerKey(r) ==
    (CHOOSE i \in Branches(r) : runs[r].race[i].status = "completed")

\* ------------------------------------------------------------------ claims
\* C1: in every run whose race was won by the saga branch alone, the run
\* terminates successfully, no onViolation callback is called and the
\* supervisor never reads the store's state.
C1_TaskWinTakesNoViolationPath ==
    \A r \in Runs :
        taskWon(r) =>
            /\ runs[r].pc = "Completed"
            /\ runs[r].handlers = <<>>
            /\ runs[r].selects = 0
            /\ runs[r].currentState = <<>>

\* C2: in every run where a watcher won the race, the callbacks called are the
\* registered ones in registration order, each once; a callback is called only
\* when every earlier one has returned; and when the run has completed every
\* registered callback has been called and has returned.
C2_HandlersSequentialInOrder ==
    \A r \in Runs :
        LET reg == chainCallbacks(runs[r].def)
            h == runs[r].handlers
        IN  /\ Len(h) <= Len(reg)
            /\ \A j \in 1..Len(h) : h[j].callback = reg[j]
            /\ \A j \in 1..Len(h) : j < Len(h) => h[j].status = "done"
            /\ (watcherWon(r) /\ runs[r].pc = "Notifying") =>
                    (h # <<>> /\ h[Len(h)].status = "running")
            /\ (watcherWon(r) /\ runs[r].pc = "Completed") =>
                    (Len(h) = Len(reg) /\ \A j \in 1..Len(h) : h[j].status = "done")

\* Two different callbacks have run to completion, one after the other, in a
\* run won by a watcher, and the store changed meanwhile.
C2_Witness ==
    \E r \in Runs :
        /\ watcherWon(r)
        /\ runs[r].pc = "Completed"
        /\ Len(runs[r].handlers) = 2
        /\ runs[r].handlers[1].callback # runs[r].handlers[2].callback
        /\ state # runs[r].currentState[1]

\* C3: the violations passed to every callback are exactly the registered tags
\* whose clause is false on the snapshot read after the race, in registration
\* order, whichever watcher won.
C3_ViolationsAreFalseTagsInOrder ==
    \A r \in Runs :
        /\ runs[r].currentState # <<>> =>
              runs[r].violations =
                  falseTags(chainInvariants(runs[r].def), runs[r].currentState[1])
        /\ \A j \in 1..Len(runs[r].handlers) :
              /\ runs[r].currentState # <<>>
              /\ runs[r].handlers[j].state = runs[r].currentState[1]
              /\ runs[r].handlers[j].violations =
                    falseTags(chainInvariants(runs[r].def), runs[r].currentState[1])

\* The later-registered invariant's watcher won, and the callback was passed
\* both tags, the earlier-registered one first.
C3_Witness ==
    \E r \in Runs :
        /\ watcherWon(r)
        /\ Len(chainInvariants(runs[r].def)) = 2
        /\ runs[r].race[winnerKey(r)].key = chainInvariants(runs[r].def)[2][1]
        /\ runs[r].handlers # <<>>
        /\ runs[r].handlers[1].violations =
              << chainInvariants(runs[r].def)[1][1], chainInvariants(runs[r].def)[2][1] >>

\* C4: in one violation-handling pass the store is read once, and every
\* callback is passed that one snapshot and the one violation sequence computed
\* from it, whatever the store has become in the meantime.
C4_OneSnapshotForAllHandlers ==
    \A r \in Runs :
        /\ runs[r].selects <= 1
        /\ runs[r].handlers # <<>> => runs[r].selects = 1
        /\ \A j \in 1..Len(runs[r].handlers) :
              /\ runs[r].handlers[j].state = runs[r].handlers[1].state
              /\ runs[r].handlers[j].violations = runs[r].handlers[1].violations
              /\ runs[r].handlers[j].state = runs[r].currentState[1]
              /\ runs[r].handlers[j].violations = runs[r].violations

\* The second callback is running with the snapshot and violations the first
\* one was passed, while the store holds another state on which the violations
\* would differ.
C4_Witness ==
    \E r \in Runs :
        /\ Len(runs[r].handlers) = 2
        /\ runs[r].handlers[1].status = "done"
        /\ runs[r].handlers[2].status = "running"
        /\ state # runs[r].handlers[2].state
        /\ falseTags(chainInvariants(runs[r].def), state) # runs[r].handlers[2].violations

\* C5: when the winning watcher's clause is true again on the snapshot its tag
\* is not among the violations; when every clause is true on the snapshot the
\* violations are empty, and the completed run has still called every
\* registered callback, once each and in order, with the empty sequence.
C5_FlappedClauseOmittedHandlersStillRun ==
    \A r \in Runs :
        (watcherWon(r) /\ runs[r].currentState # <<>>) =>
            LET snap == runs[r].currentState[1]
                pairs == chainInvariants(runs[r].def)
                reg == chainCallbacks(runs[r].def)
                h == runs[r].handlers
            IN  /\ \A i \in 1..Len(pairs) :
                      clause(pairs[i][2], snap) =>
                          \A j \in 1..Len(runs[r].violations) :
                              runs[r].violations[j] # pairs[i][1]
                /\ (\A i \in 1..Len(pairs) : clause(pairs[i][2], snap)) =>
                      /\ runs[r].violations = <<>>
                      /\ \A j \in 1..Len(h) :
                            h[j].violations = <<>> /\ h[j].callback = reg[j]
                      /\ runs[r].pc = "Completed" =>
                            (Len(h) = Len(reg) /\ \A j \in 1..Len(h) : h[j].status = "done")

\* A watcher won, every clause was true again on the snapshot, and the run
\* completed after calling its callback with no violations.
C5_Witness ==
    \E r \in Runs :
        /\ watcherWon(r)
        /\ runs[r].pc = "Completed"
        /\ runs[r].currentState # <<>>
        /\ \A i \in 1..Len(chainInvariants(runs[r].def)) :
              clause(chainInvariants(runs[r].def)[i][2], runs[r].currentState[1])
        /\ runs[r].handlers # <<>>
        /\ runs[r].handlers[1].violations = <<>>
        /\ runs[r].handlers[1].status = "done"

\* While the race is on every branch is running; once it is over exactly one
\* branch has completed or failed and every other one is cancelled.
LosersCancelled ==
    \A r \in Runs :
        /\ runs[r].pc = "Racing" =>
              \A i \in Branches(r) : runs[r].race[i].status = "running"
        /\ runs[r].pc \notin {"Idle", "Racing"} =>
              /\ \A i \in Branches(r) : runs[r].race[i].status # "running"
              /\ Cardinality({i \in Branches(r) :
                    runs[r].race[i].status \in {"completed", "failed"}}) = 1
              /\ watcherWon(r) =>
                    \A i \in Branches(r) :
                        runs[r].race[i].fn = "saga" =>
                            runs[r].race[i].status = "cancelled"
              /\ taskWon(r) =>
                    \A i \in Branches(r) :
                        runs[r].race[i].fn = "observeWhile" =>
                            runs[r].race[i].status = "cancelled"

\* Once the race of a run is over, no branch of it changes and the saga takes
\* no further step.
BranchesFrozenAfterRace ==
    \A r \in Runs :
        runs[r].pc \notin {"Idle", "Racing"} =>
            /\ runs'[r].race = runs[r].race
            /\ runs'[r].taskSteps = runs[r].taskSteps

\* C6: as soon as one branch of the race completes every other branch is
\* cancelled: after a watcher wins the saga takes no further step and never
\* completes, after the saga wins no watcher completes, and no branch is still
\* running once the run has terminated.
C6_RaceCancelsLosers == [] LosersCancelled /\ [][BranchesFrozenAfterRace]_vars

\* A watcher won after the saga had taken a step; the run has completed and
\* the saga is cancelled, one step short of completing.
C6_Witness ==
    \E r \in Runs :
        /\ watcherWon(r)
        /\ runs[r].pc = "Completed"
        /\ runs[r].taskSteps = sagaLength(chainSaga(runs[r].def)) - 1
        /\ \E i \in Branches(r) :
              runs[r].race[i].fn = "saga" /\ runs[r].race[i].status = "cancelled"

\* C7: with no invariant registered the race has the saga as its only branch,
\* the run completes exactly when the saga completes and fails exactly when it
\* fails, and the store is never read nor a callback called.
C7_NoInvariantsIsTaskAlone ==
    \A r \in Runs :
        chainInvariants(runs[r].def) = <<>> =>
            /\ runs[r].pc \in {"Idle", "Racing", "Completed", "Failed"}
            /\ runs[r].selects = 0
            /\ runs[r].currentState = <<>>
            /\ runs[r].handlers = <<>>
            /\ runs[r].pc # "Idle" =>
                  /\ Len(runs[r].race) = 1
                  /\ runs[r].race[1].fn = "saga"
                  /\ runs[r].race[1].arg = chainSaga(runs[r].def)
                  /\ runs[r].pc = "Racing" <=> runs[r].race[1].status = "running"
                  /\ runs[r].pc = "Completed" <=> runs[r].race[1].status = "completed"
                  /\ runs[r].pc = "Failed" <=> runs[r].race[1].status = "failed"

\* A run of a definition without invariants has completed with its saga,
\* while the store had left its initial state.
C7_Witness ==
    \E r \in Runs :
        /\ chainInvariants(runs[r].def) = <<>>
        /\ runs[r].pc = "Completed"
        /\ taskWon(r)
        /\ runs[r].taskSteps = sagaLength(chainSaga(runs[r].def))
        /\ state # 0

\* C8: invariant(tag, clause) throws the reserved-tag error when the tag is
\* '@@Saga', the duplicate-tag error when the tag equals, case-sensitively, a
\* tag registered earlier on the receiver's chain, and otherwise succeeds and
\* returns a new stage; the error is thrown by the call itself.
C8_InvariantCallOutcome ==
    lastCall.method = "invariant" =>
        LET tag == lastCall.arg[1]
        IN  /\ tag = sagaRaceTag => lastCall.thrown = "reserved"
            /\ (tag # sagaRaceTag /\ tag \in chainTags(lastCall.this)) =>
                    lastCall.thrown = "duplicate"
            /\ (tag # sagaRaceTag /\ tag \notin chainTags(lastCall.this)) =>
                    /\ lastCall.thrown = "none"
                    /\ Len(defs) = Len(calls)
                    /\ calls[Len(calls)] =
                          [this |-> lastCall.this, method |-> "invariant",
                           arg |-> lastCall.arg]

\* On a chain that registered "a" and then "A" without error, registering "A"
\* again has just thrown the duplicate-tag error.
C8_Witness ==
    /\ lastCall.method = "invariant"
    /\ lastCall.thrown = "duplicate"
    /\ lastCall.arg[1] = "A"
    /\ "a" \in chainTags(lastCall.this)

\* What a stage lets its caller, or a run bound to it, observe
stageContent(s) ==
    [ saga |-> defs[s].saga,
      invariants |-> [i \in 1..Len(arrays[defs[s].invariants]) |->
                        << arrays[defs[s].invariants][i].tag,
                           arrays[defs[s].invariants][i].clause >>],
      callbacks |-> arrays[defs[s].onViolationCallbacks],
      methods |-> stages[s] ]

\* Every stage holds what the calls of its own chain registered, whatever was
\* called on other stages.
StagesHoldTheirOwnChain ==
    \A s \in 1..Len(defs) :
        /\ stageContent(s).saga = chainSaga(s)
        /\ stageContent(s).invariants = chainInvariants(s)
        /\ stageContent(s).callbacks = chainCallbacks(s)

\* A step leaves every existing stage, its definition and its arrays as they were.
StagesUnchangedByStep ==
    \A s \in 1..Len(defs) :
        /\ defs'[s] = defs[s]
        /\ stages'[s] = stages[s]
        /\ arrays'[defs[s].invariants] = arrays[defs[s].invariants]
        /\ arrays'[defs[s].onViolationCallbacks] = arrays[defs[s].onViolationCallbacks]

\* C9: no builder call changes the stage it is called on, nor any other
\* existing stage: saga, invariant sequence and callback sequence of every
\* stage stay what its own chain of calls registered, so stages derived from
\* one stage are independent of each other.
C9_BuilderCallsLeaveStagesUnchanged ==
    [] StagesHoldTheirOwnChain /\ [][StagesUnchangedByStep]_vars

\* Two stages were derived from the same stage by invariant calls with
\* different tags, and that stage was then extended with a callback as well.
C9_Witness ==
    \E s1, s2, s3 \in 1..Len(defs) :
        /\ s1 < s2 /\ s2 < s3
        /\ calls[s1].method = "invariant" /\ calls[s2].method = "invariant"
        /\ calls[s1].this = calls[s2].this
        /\ calls[s1].arg[1] # calls[s2].arg[1]
        /\ calls[s3].method = "onViolation" /\ calls[s3].this = s1

\* C10 as stated: from a stage that has a violation handler both invariant
\* and onViolation can still be called.
C10_InvariantsAndHandlersStillAddable ==
    \A s \in 1..Len(defs) :
        chainCallbacks(s) # <<>> => {"invariant", "onViolation"} \subseteq stages[s]

\* C10 as the code has it: a stage that has a violation handler offers
\* onViolation and run, and no invariant method; further handlers can be
\* added from it, further invariants cannot.
C10_OnlyHandlersStillAddable ==
    \A s \in 1..Len(defs) :
        chainCallbacks(s) # <<>> => stages[s] = {"onViolation", "run"}

\* A second violation handler has been added from a stage that already had one.
C10_Witness ==
    \E s \in 1..Len(defs) :
        /\ calls[s].method = "onViolation"
        /\ chainCallbacks(calls[s].this) # <<>>
        /\ Len(chainCallbacks(s)) = 2
        /\ "invariant" \notin stages[calls[s].this]

\* C11 as stated: run can be called on every stage reached by saga, then any
\* number of invariant calls, then any number of onViolation calls; so also on
\* a stage with invariants and no violation handler.
C11_RunReachableFromEveryChain ==
    \A s \in 1..Len(defs) :
        calls[s].method \in {"saga", "invariant", "onViolation"} => "run" \in stages[s]

\* C11 as the code has it: run can be called on the stage returned by saga
\* (no invariants) and on every stage returned by onViolation (at least one
\* invariant and at least one handler), and not on a stage returned by
\* invariant; so every run of a definition with invariants has a handler, and
\* a completed run that read the store has called one.
C11_RunNeedsAHandlerOnceInvariantsExist ==
    /\ \A s \in 1..Len(defs) :
          /\ "run" \in stages[s] <=> calls[s].method \in {"saga", "onViolation"}
          /\ "run" \in stages[s] <=>
                (calls[s].method # "runWhile"
                    /\ (chainInvariants(s) = <<>> \/ chainCallbacks(s) # <<>>))
    /\ \A r \in Runs :
          /\ "run" \in stages[runs[r].def]
          /\ chainInvariants(runs[r].def) # <<>> => chainCallbacks(runs[r].def) # <<>>
          /\ (runs[r].pc = "Completed" /\ runs[r].currentState # <<>>) =>
                runs[r].handlers # <<>>

\* A run of a definition with one invariant and one handler has completed on
\* the violation path; the invariant stage that definition was built from
\* offers no run.
C11_Witness ==
    \E r \in Runs :
        /\ watcherWon(r)
        /\ runs[r].pc = "Completed"
        /\ Len(chainCallbacks(runs[r].def)) = 1
        /\ calls[calls[runs[r].def].this].method = "invariant"
        /\ "run" \notin stages[calls[runs[r].def].this]

\* C12: runs of one definition share no mutable state. Every step changes at
\* most one run; a step that changes a run, or adds one, leaves the heap of
\* definitions (arrays, definition objects, stages) as it was; a step that
\* changes the heap leaves every run as it was; and at every moment each
\* handler call of a run carries that run's own snapshot and that run's own
\* violations, which are the registered tags false on that snapshot.
OneRunPerStep ==
    /\ Len(runs') >= Len(runs)
    /\ \A r \in Runs : runs'[r] # runs[r] =>
          /\ Len(runs') = Len(runs)
          /\ \A q \in Runs \ {r} : runs'[q] = runs[q]
          /\ runs'[r].def = runs[r].def
    /\ runs' # runs => arrays' = arrays /\ defs' = defs /\ stages' = stages
    /\ state' # state => runs' = runs

RunsUseTheirOwnData ==
    \A r \in Runs :
        /\ runs[r].handlers # <<>> => runs[r].currentState # <<>>
        /\ runs[r].currentState # <<>> =>
              runs[r].violations =
                  falseTags(chainInvariants(runs[r].def), runs[r].currentState[1])
        /\ \A j \in 1..Len(runs[r].handlers) :
              /\ runs[r].handlers[j].state = runs[r].currentState[1]
              /\ runs[r].handlers[j].violations = runs[r].violations
        /\ runs[r].race # <<>> =>
              /\ runs[r].race[sagaBranch(r)].arg = chainSaga(runs[r].def)
              /\ Len(runs[r].race) <= 1 + Len(chainInvariants(runs[r].def))

C12_RunsShareNoState == [] RunsUseTheirOwnData /\ [][OneRunPerStep]_vars

\* Two runs of one definition have both ended, having read different snapshots
\* and computed different violations, and each called its handler with its own.
C12_Witness ==
    \E r \in Runs : \E q \in Runs :
        /\ r # q
        /\ runs[r].def = runs[q].def
        /\ runs[r].pc = "Completed" /\ runs[q].pc = "Completed"
        /\ runs[r].handlers # <<>> /\ runs[q].handlers # <<>>
        /\ runs[r].currentState # runs[q].currentState
        /\ runs[r].violations # runs[q].violations

\* C13: nothing is caught. A run in which the saga branch or a watcher branch
\* failed has failed with that branch's error, its other branches are
\* cancelled and it has called no handler; a run in which a handler failed has
\* failed with that handler's error and the failed handler is the last one it
\* called; a run fails for no other reason; and a failed run takes no further
\* step.
FailuresSurface ==
    \A r \in Runs :
        /\ \A i \in Branches(r) : runs[r].race[i].status = "failed" =>
              /\ runs[r].pc = "Failed"
              /\ runs[r].error = runs[r].race[i].key
              /\ runs[r].handlers = <<>>
              /\ runs[r].currentState = <<>>
              /\ \A j \in Branches(r) \ {i} : runs[r].race[j].status = "cancelled"
        /\ \A j \in 1..Len(runs[r].handlers) :
              runs[r].handlers[j].status = "failed" =>
                 /\ runs[r].pc = "Failed"
                 /\ runs[r].error = runs[r].handlers[j].callback
                 /\ j = Len(runs[r].handlers)
                 /\ \A h \in 1..(j - 1) : runs[r].handlers[h].status = "done"
        /\ runs[r].pc = "Failed" <=>
              \/ \E i \in Branches(r) : runs[r].race[i].status = "failed"
              \/ \E j \in 1..Len(runs[r].handlers) :
                    runs[r].handlers[j].status = "failed"

FailedRunsStay ==
    \A r \in Runs : runs[r].pc = "Failed" => runs'[r] = runs[r]

C13_FailuresAreNotCaught == [] FailuresSurface /\ [][FailedRunsStay]_vars

\* The first of two registered handlers failed: the run has failed with its
\* error and the second handler was not called.
C13_Witness ==
    \E r \in Runs :
        /\ Len(chainCallbacks(runs[r].def)) = 2
        /\ Len(runs[r].handlers) = 1
        /\ runs[r].handlers[1].status = "failed"
        /\ runs[r].pc = "Failed"
        /\ runs[r].error = chainCallbacks(runs[r].def)[1]

\* C14: every run follows only Idle -> Racing -> Completed or Idle -> Racing ->
\* Violated -> Evaluating -> Notifying -> Completed. In the model Violated is
\* pc = "Select" (the race has resolved towards the violation path), Evaluating
\* is the step selectState itself and Notifying is pc = "Notifying"; a run
\* ended by an error is left aside. The violation path is entered only when a
\* watcher branch won, never when the saga branch won; Completed is terminal
\* and no state is entered twice.
RunTransitions ==
    { <<"Idle", "Racing">>, <<"Racing", "Racing">>, <<"Racing", "Completed">>,
      <<"Racing", "Select">>, <<"Select", "Notifying">>, <<"Select", "Completed">>,
      <<"Notifying", "Notifying">>, <<"Notifying", "Completed">>,
      <<"Racing", "Failed">>, <<"Notifying", "Failed">> }

RunStepAllowed ==
    \A r \in Runs : runs'[r] # runs[r] =>
        /\ <<runs[r].pc, runs'[r].pc>> \in RunTransitions
        /\ runs'[r].selects <= 1

ViolationPathOnlyAfterWatcherWon ==
    \A r \in Runs :
        /\ runs[r].pc \in {"Select", "Notifying"} => watcherWon(r) /\ ~taskWon(r)
        /\ taskWon(r) =>
              /\ runs[r].pc = "Completed"
              /\ runs[r].selects = 0
              /\ runs[r].handlers = <<>>
        /\ runs[r].pc = "Idle" => runs[r].race = <<>>

C14_RunStateMachine ==
    [] ViolationPathOnlyAfterWatcherWon /\ [][RunStepAllowed]_vars

\* C15: in every definition, whatever builder calls were made and whichever of
\* them failed, the invariant tags are pairwise distinct and none is '@@Saga';
\* and the race of every started run has exactly one saga branch, keyed
\* '@@Saga', and one observeWhile branch per registered invariant, keyed by its
\* tag and holding its clause, all keys distinct and no other branch.
tagsOf(s) == arrays[defs[s].invariants]

C15_TagsDistinctAndRaceComplete ==
    /\ \A s \in 1..Len(defs) :
          /\ \A i \in 1..Len(tagsOf(s)) : tagsOf(s)[i].tag # sagaRaceTag
          /\ \A i \in 1..Len(tagsOf(s)) : \A j \in 1..Len(tagsOf(s)) :
                tagsOf(s)[i].tag = tagsOf(s)[j].tag => i = j
    /\ \A r \in Runs : runs[r].pc # "Idle" =>
          /\ Len(runs[r].race) = 1 + Len(chainInvariants(runs[r].def))
          /\ \E i \in Branches(r) :
                /\ runs[r].race[i].key = sagaRaceTag
                /\ runs[r].race[i].fn = "saga"
                /\ runs[r].race[i].arg = chainSaga(runs[r].def)
          /\ \A i \in 1..Len(chainInvariants(runs[r].def)) :
                \E j \in Branches(r) :
                   /\ runs[r].race[j].key = chainInvariants(runs[r].def)[i][1]
                   /\ runs[r].race[j].fn = "observeWhile"
                   /\ runs[r].race[j].arg = chainInvariants(runs[r].def)[i][2]
          /\ \A i \in Branches(r) : \A j \in Branches(r) :
                runs[r].race[i].key = runs[r].race[j].key => i = j

\* A run of a definition with two registered invariants races three branches,
\* and the watcher of the second invariant has won that race.
C15_Witness ==
    \E r \in Runs :
        /\ Len(chainInvariants(runs[r].def)) = 2
        /\ Len(runs[r].race) = 3
        /\ \E j \in Branches(r) :
              /\ runs[r].race[j].key = chainInvariants(runs[r].def)[2][1]
              /\ runs[r].race[j].status = "completed"
        /\ runs[r].race[sagaBranch(r)].status = "cancelled"

\* C16: the stage returned by a successful invariant call has the receiver's
\* invariants followed by the new (tag, clause), and the receiver's saga and
\* callbacks; the stage returned by an onViolation call has the receiver's
\* callbacks followed by the new callback, and the receiver's saga and
\* invariants; so the invariants and the callbacks of every stage are the ones
\* registered on its chain of calls, in call order.
callbacksOf(s) == arrays[defs[s].onViolationCallbacks]

C16_CallsAppendAtTheEnd ==
    \A s \in 2..Len(defs) :
        LET this == calls[s].this
        IN  /\ calls[s].method = "invariant" =>
                  /\ tagsOf(s) = Append(tagsOf(this),
                        [tag |-> calls[s].arg[1], clause |-> calls[s].arg[2]])
                  /\ callbacksOf(s) = callbacksOf(this)
                  /\ defs[s].saga = defs[this].saga
            /\ calls[s].method = "onViolation" =>
                  /\ callbacksOf(s) = Append(callbacksOf(this), calls[s].arg[1])
                  /\ tagsOf(s) = tagsOf(this)
                  /\ defs[s].saga = defs[this].saga
            /\ Len(tagsOf(s)) = Len(chainInvariants(s))
            /\ \A i \in 1..Len(tagsOf(s)) :
                  /\ tagsOf(s)[i].tag = chainInvariants(s)[i][1]
                  /\ tagsOf(s)[i].clause = chainInvariants(s)[i][2]
            /\ callbacksOf(s) = chainCallbacks(s)

\* A stage built by an invariant call and then two onViolation calls with
\* different callbacks holds the callbacks in call order.
C16_Witness ==
    \E s \in 1..Len(defs) :
        /\ calls[s].method = "onViolation"
        /\ callbacksOf(s) = <<"h1", "h2">>
        /\ Len(tagsOf(s)) = 1
        /\ calls[calls[calls[s].this].this].method = "invariant"

\* C17: an invariant call that throws (reserved tag or duplicate tag) changes
\* nothing: no array, no definition, no stage and no recorded call changes, so
\* the receiver keeps its invariants, callbacks and saga. The receiver stays
\* usable: it still has its invariant method, a call on it with a fresh tag
\* other than '@@Saga' does not throw, and the successful call that follows a
\* failed one on the same receiver returns the receiver's invariants followed
\* by the new pair, as it would have without the failed call.
FailedCallChangesNothing ==
    (lastCall' # lastCall /\ lastCall'.thrown # "none") =>
        /\ lastCall'.method = "invariant"
        /\ arrays' = arrays /\ defs' = defs /\ stages' = stages /\ calls' = calls

CallAfterFailedCall ==
    (/\ lastCall.thrown # "none"
     /\ lastCall'.this = lastCall.this
     /\ lastCall'.method = "invariant"
     /\ lastCall'.thrown = "none") =>
        /\ Len(defs') = Len(defs) + 1
        /\ arrays'[defs'[Len(defs')].invariants] =
              Append(tagsOf(lastCall.this),
                     [tag |-> lastCall'.arg[1], clause |-> lastCall'.arg[2]])
        /\ arrays'[defs'[Len(defs')].onViolationCallbacks] = callbacksOf(lastCall.this)
        /\ defs'[Len(defs')].saga = defs[lastCall.this].saga

ReceiverOfFailedCallUsable ==
    lastCall.thrown # "none" =>
        /\ "invariant" \in stages[lastCall.this]
        /\ lastCall.thrown = "reserved" <=> lastCall.arg[1] = sagaRaceTag
        /\ lastCall.thrown = "duplicate" <=> lastCall.arg[1] \in chainTags(lastCall.this)
        /\ tagsOf(lastCall.this) =
              [i \in 1..Len(chainInvariants(lastCall.this)) |->
                  [tag |-> chainInvariants(lastCall.this)[i][1],
                   clause |-> chainInvariants(lastCall.this)[i][2]]]
        /\ callbacksOf(lastCall.this) = chainCallbacks(lastCall.this)
        /\ \A tag \in BuilderTags \ (chainTags(lastCall.this) \cup {sagaRaceTag}) :
              invariantThrows(lastCall.this, tag) = "none"

C17_FailedCallLeavesReceiverUsable ==
    /\ [] ReceiverOfFailedCallUsable
    /\ [][FailedCallChangesNothing /\ CallAfterFailedCall]_vars

\* A duplicate-tag call has just failed on a stage that holds two invariants,
\* and a fresh tag is still left to add.
C17_Witness ==
    /\ lastCall.method = "invariant"
    /\ lastCall.thrown = "duplicate"
    /\ Len(tagsOf(lastCall.this)) = 2
    /\ lastCall.arg[1] = tagsOf(lastCall.this)[1].tag
    /\ \E tag \in BuilderTags : invariantThrows(lastCall.this, tag) = "none"

\* C18: the steps of the violation path are ordered. The store is read only by
\* a run whose race has resolved, so after the saga was cancelled: no branch of
\* it is running any more and the saga branch is cancelled. The violations are
\* computed from the snapshot that was read, in the step that reads it; a handler is
\* called only by a run that holds its snapshot and its violations; and while
\* a handler runs, no branch of that run is running.
RaceResolved(rn) ==
    /\ rn.race # <<>>
    /\ \A i \in 1..Len(rn.race) : rn.race[i].status # "running"
    /\ \E i \in 1..Len(rn.race) : rn.race[i].status = "completed"

ViolationPathOrdered ==
    \A r \in Runs :
        /\ runs[r].currentState # <<>> =>
              /\ runs[r].pc \notin {"Idle", "Racing", "Select"}
              /\ RaceResolved(runs[r])
              /\ runs[r].race[sagaBranch(r)].status = "cancelled"
              /\ runs[r].violations =
                    falseTags(chainInvariants(runs[r].def), runs[r].currentState[1])
        /\ runs[r].currentState = <<>> => runs[r].violations = <<>>
        /\ runs[r].handlers # <<>> => runs[r].currentState # <<>>
        /\ \A j \in 1..Len(runs[r].handlers) :
              runs[r].handlers[j].status = "running" => RaceResolved(runs[r])

ViolationPathStep ==
    \A r \in Runs :
        /\ runs'[r].currentState # runs[r].currentState =>
              /\ runs[r].pc = "Select"
              /\ RaceResolved(runs[r])
              /\ runs[r].currentState = <<>>
              /\ runs[r].handlers = <<>>
              /\ runs'[r].currentState = <<state>>
        /\ Len(runs'[r].handlers) > Len(runs[r].handlers) =>
              /\ runs[r].pc \in {"Select", "Notifying"}
              /\ RaceResolved(runs[r])
              /\ runs'[r].race = runs[r].race

C18_ViolationPathStepsOrdered ==
    [] ViolationPathOrdered /\ [][ViolationPathStep]_vars

\* C19: under fair scheduling every run terminates (its saga ends unless a
\* watcher or an error ends the race first, and every called callback ends).
\* Conversely there is no timeout: a run leaves the race only in a step in
\* which the saga takes its last step, or a watcher observes its clause false
\* on the store's state, or a branch throws; and a run that is still in the
\* race has read no state and has called no handler.
RaceLeftOnlyByABranch ==
    \A r \in Runs :
        (runs[r].pc = "Racing" /\ runs'[r].pc # "Racing") =>
            \/ /\ runs'[r].race[sagaBranch(r)].status = "completed"
               /\ runs'[r].taskSteps = sagaLength(chainSaga(runs[r].def))
            \/ \E i \in Branches(r) \ {sagaBranch(r)} :
                  /\ runs'[r].race[i].status = "completed"
                  /\ ~clause(runs[r].race[i].arg, state)
            \/ /\ runs'[r].pc = "Failed"
               /\ \E i \in Branches(r) : runs'[r].race[i].status = "failed"

StillRacingCallsNoHandler ==
    \A r \in Runs : runs[r].pc \in {"Idle", "Racing"} =>
        /\ runs[r].handlers = <<>>
        /\ runs[r].selects = 0
        /\ runs[r].taskSteps < sagaLength(chainSaga(runs[r].def))
        /\ \A i \in Branches(r) : runs[r].race[i].status = "running"

EveryRunTerminates ==
    \A r \in 1..MaxFairObjects :
        (r \in Runs) ~> (r \in Runs /\ runs[r].pc \in {"Completed", "Failed"})

C19_RunTerminatesOnlyThroughABranch ==
    /\ EveryRunTerminates
    /\ [] StillRacingCallsNoHandler
    /\ [][RaceLeftOnlyByABranch]_vars

\* A run has terminated: a watcher ended its race before the saga took its
\* last step, and its handler was called and ended.
C19_Witness ==
    \E r \in Runs :
        /\ runs[r].pc = "Completed"
        /\ watcherWon(r)
        /\ runs[r].taskSteps < sagaLength(chainSaga(runs[r].def))
        /\ Len(runs[r].handlers) = 1
        /\ runs[r].handlers[1].status = "done"
====
